---- MODULE Spec2Model ----
(***************************************************************************)
(* Pouchy's public methods (src/src/public.js) as a state machine: one     *)
(* facade instance over a document backend (this.db), an optional          *)
(* replication emitter (this.syncEmitter) and the public calls in flight,  *)
(* which may overlap.                                                      *)
(* JavaScript values are tagged records, strings are sequences of          *)
(* one-character strings, so that truthiness, strict equality, own         *)
(* properties and the design-document regular expression are computed.     *)
(***************************************************************************)
EXTENDS Integers, Sequences, FiniteSets, TLC

VARIABLES
  db,              \* identifiers of the documents the backend holds
  indexes,         \* field lists the backend has an index over
  syncEmitter,     \* this.syncEmitter: the replication session's emitter
  replicationOpts, \* this._replicationOpts
  calls            \* the public calls in flight, in the order they were made

vars == <<db, indexes, syncEmitter, replicationOpts, calls>>

\* ------------------------------------------------------------------ bounds
\* most documents the backend holds at once
MaxDocs == 3
\* longest bulkGet request
MaxBatch == 2
\* most public calls in flight at once
MaxCalls == 2
\* most cancel() calls the emitter receives
MaxCancels == 2

\* ------------------------------------------------------- JavaScript values
Undef == [t |-> "undefined"]
Null == [t |-> "null"]
Fn == [t |-> "function"]
Bool(b) == [t |-> "boolean", b |-> b]
Num(n) == [t |-> "number", n |-> n]
Str(s) == [t |-> "string", s |-> s]
Obj(o) == [t |-> "object", o |-> o]
Arr(a) == [t |-> "array", a |-> a]
EmptyObj == Obj(<<>>)

\* ToBoolean
Truthy(v) ==
  CASE v.t = "undefined" -> FALSE
    [] v.t = "null" -> FALSE
    [] v.t = "boolean" -> v.b
    [] v.t = "number" -> v.n # 0
    [] v.t = "string" -> Len(v.s) > 0
    [] OTHER -> TRUE

\* v === w
StrictEq(v, w) == v = w

\* Array.isArray(v)
IsArray(v) == v.t = "array"

\* typeof v === 'function'
IsFunction(v) == v.t = "function"

\* o.hasOwnProperty(f)
HasOwn(o, f) == o.t = "object" /\ f \in DOMAIN o.o

\* o.f (undefined when absent)
Get(o, f) == IF HasOwn(o, f) THEN o.o[f] ELSE Undef

\* o.f = x
Set(o, f, x) == Obj((f :> x) @@ o.o)

\* delete o.f
Del(o, f) == Obj([k \in DOMAIN o.o \ {f} |-> o.o[k]])

\* lodash defaults(o, src): fills the properties of o that are undefined
defaults(o, src) ==
  Obj([k \in DOMAIN o.o \cup DOMAIN src.o |->
        IF Get(o, k) = Undef THEN Get(src, k) ELSE o.o[k]])

\* ------------------------------------------------------------- identifiers
sA == <<"a">>
sB == <<"b">>
designDocPrefix == <<"_", "d", "e", "s", "i", "g", "n", "/">>
sDesign == designDocPrefix \o <<"i">>
\* holds the prefix, but not at its start
sNear == <<"x">> \o designDocPrefix
\* the backend's enumeration order (ascending identifiers)
IdOrder == <<sDesign, sA, sB, sNear>>
AllIds == {IdOrder[i] : i \in DOMAIN IdOrder}
\* identifiers the backend generates on post
GenIds == {sA, sB}
\* the revision token the backend assigns (opaque to the facade)
Rev == Str(<<"1", "-", "r">>)

\* new RegExp('^_design/') matched against a string
designDocRegex(s) ==
  /\ Len(s) >= Len(designDocPrefix)
  /\ SubSeq(s, 1, Len(designDocPrefix)) = designDocPrefix

\* ------------------------------------------------------------------ errors
ArgErr(m) == [t |-> "error", name |-> "Error", message |-> m]
\* new ReferenceError('doc ' + docGroup.id + 'not found')
NotFoundErr(id) ==
  [t |-> "error", name |-> "ReferenceError",
   message |-> Str(<<"d", "o", "c", " ">> \o id.s
                   \o <<"n", "o", "t", " ", "f", "o", "u", "n", "d">>)]
BackendErr(status) == [t |-> "error", name |-> "PouchError", status |-> status]

\* ------------------------------------------------------- the dual-API wrapper
\* to-underscore-prefix: id/rev of a result become _id/_rev, arrays elementwise
RECURSIVE toUnderscorePrefix(_)
toUnderscorePrefix(v) ==
  CASE v.t = "array" -> Arr([i \in DOMAIN v.a |-> toUnderscorePrefix(v.a[i])])
    [] v.t = "object" ->
         LET a == IF HasOwn(v, "id") THEN Del(Set(v, "_id", Get(v, "id")), "id") ELSE v
         IN IF HasOwn(a, "rev") THEN Del(Set(a, "_rev", Get(a, "rev")), "rev") ELSE a
    [] OTHER -> v

\* if (typeof args[args.length - 1] === 'function') cb = args.pop()
HasCb(args) == Len(args) > 0 /\ IsFunction(args[Len(args)])
Forwarded(args) == IF HasCb(args) THEN SubSeq(args, 1, Len(args) - 1) ELSE args
\* the i-th parameter of the method the wrapper applies
Param(args, i) == IF i <= Len(Forwarded(args)) THEN Forwarded(args)[i] ELSE Undef
\* the arguments a caller passes: the parameters, then the optional callback
Args(params, withCb) == params \o (IF withCb THEN <<Fn>> ELSE <<>>)

\* a collaborator invocation
Invoke(fn, args) == [fn |-> fn, args |-> args]

\* one invocation of pouchDualApiSupportMethod whose method returned a promise:
\* await is what the promise waits for, req what the method sent, log the
\* collaborator invocations made for the call, cbCalls the invocations of its
\* callback, resp the backend's answer, deletes deleteAll's removals, failure
\* the error of the first removal refused, p the state of destroy's isCompleteP
Pending(op, args, await, req, log) ==
  [op |-> op, cb |-> HasCb(args), status |-> "pending", await |-> await,
   req |-> req, resp |-> Undef, value |-> Undef, log |-> log, cbCalls |-> <<>>,
   deletes |-> <<>>, failure |-> Undef, p |-> "none"]

\* the method threw before returning: the exception leaves the wrapper
Thrown(op, args, err) ==
  [Pending(op, args, "none", Undef, <<>>) EXCEPT !.status = "thrown", !.value = err]

\* res fulfils: .then(res => toUnderscorePrefix(res)); the callback is a
\* later reaction
Fulfilled(c, v) ==
  [c EXCEPT !.status = "resolved", !.await = "none", !.value = toUnderscorePrefix(v)]

\* res rejects with the reason; the callback is a later reaction
Rejected(c, e) ==
  [c EXCEPT !.status = "rejected", !.await = "none", !.value = e]

\* a caller makes a public call, whatever the other calls in flight do
Start(c) ==
  /\ Len(calls) < MaxCalls
  /\ calls' = Append(calls, c)

\* call k moves on
Put(k, c) == calls' = [calls EXCEPT ![k] = c]

\* call k waits for the backend's answer to `await`
Awaits(k, await) == calls[k].status = "pending" /\ calls[k].await = await

\* res.asCallback(cb): the reaction that hands the settled outcome of call k
\* to its callback, as (err) or (null, result)
AsCallback(k) ==
  /\ calls[k].cb
  /\ calls[k].status \in {"resolved", "rejected"}
  /\ calls[k].cbCalls = <<>>
  /\ Put(k, [calls[k] EXCEPT !.cbCalls =
                IF calls[k].status = "resolved"
                THEN <<[err |-> Null, res |-> calls[k].value]>>
                ELSE <<[err |-> calls[k].value]>>])
  /\ UNCHANGED <<db, indexes, syncEmitter, replicationOpts>>

\* the caller has the outcome of call k (the exception, or the settled future
\* and the callback's completion) and nothing of the call is outstanding
Return(k) ==
  /\ calls[k].status \in {"thrown", "resolved", "rejected"}
  /\ (calls[k].cb /\ calls[k].status # "thrown") => calls[k].cbCalls # <<>>
  /\ \A id \in DOMAIN calls[k].deletes : calls[k].deletes[id] # "pending"
  /\ calls' = [i \in 1..(Len(calls) - 1) |-> IF i < k THEN calls[i] ELSE calls[i + 1]]
  /\ UNCHANGED <<db, indexes, syncEmitter, replicationOpts>>

\* ---------------------------------------------------------------- save, add
\* a variant that leaves out the test for the number 0
SaveMethodTruthyOnly(doc) ==
  IF HasOwn(doc, "_id") /\ Truthy(Get(doc, "_id")) THEN "put" ELSE "post"

\* doc.hasOwnProperty('_id') && (doc._id || doc._id === 0) ? 'put' : 'post'
SaveMethod(doc) ==
  IF HasOwn(doc, "_id") /\ (Truthy(Get(doc, "_id")) \/ StrictEq(Get(doc, "_id"), Num(0)))
  THEN "put" ELSE "post"

\* a document without identifier
PlainDoc == Obj([x |-> Num(1)])
SaveDocs ==
  {PlainDoc}
  \cup {Obj([_id |-> i, x |-> Num(1)]) :
          i \in {Str(<<>>), Num(0), Num(1), Null, Undef,
                 Str(sA), Str(sB), Str(sDesign), Str(sNear)}}

\* save(doc[, cb]) and its alias add, up to the backend write being issued
Save(op, doc, withCb) ==
  LET args == Args(<<doc>>, withCb)
      d == Param(args, 1)
  IN /\ Start(Pending(op, args, "write", d, <<Invoke(SaveMethod(d), <<d>>)>>))
     /\ UNCHANGED <<db, indexes, syncEmitter, replicationOpts>>

\* tidySaveResults: the doc with the identifier and revision of the write
tidySaveResults(doc, meta) ==
  Set(Set(doc, "_id", Get(meta, "id")), "_rev", Get(meta, "rev"))

\* the identifier a backend write of doc stores under, when it accepts it
WriteIds(method, doc) ==
  IF method = "post"
  THEN IF Truthy(Get(doc, "_id")) THEN {} ELSE GenIds \ db
  ELSE IF Get(doc, "_id").t = "string" /\ Get(doc, "_id").s \in AllIds
       THEN {Get(doc, "_id").s} ELSE {}

\* the backend answers the put/post of save, add or update
WriteResponse(k) ==
  /\ Awaits(k, "write")
  /\ \/ \E id \in WriteIds(calls[k].log[1].fn, calls[k].req) :
          /\ id \in db \/ Cardinality(db) < MaxDocs
          /\ db' = db \cup {id}
          /\ Put(k, Fulfilled(calls[k], tidySaveResults(calls[k].req,
                      Obj([ok |-> Bool(TRUE), id |-> Str(id), rev |-> Rev]))))
     \/ /\ db' = db
        /\ Put(k, Rejected(calls[k], BackendErr(409)))
  /\ UNCHANGED <<indexes, syncEmitter, replicationOpts>>

\* ------------------------------------------------------------------ update
UpdateDocs == {Obj([_id |-> Str(i), _rev |-> Rev]) : i \in {sA, sDesign}}

\* update(doc[, cb]) up to this.db.put(doc)
Update(doc, withCb) ==
  LET args == Args(<<doc>>, withCb)
  IN /\ Start(Pending("update", args, "write", Param(args, 1),
                      <<Invoke("put", <<Param(args, 1)>>)>>))
     /\ UNCHANGED <<db, indexes, syncEmitter, replicationOpts>>

\* --------------------------------------------------------------------- get
\* the document the backend holds under id
StoredDoc(id) == Obj([_id |-> Str(id), _rev |-> Rev])

\* get(id[, cb]): this.db.get.apply(this.db, arguments)
GetDoc(id, withCb) ==
  LET args == Args(<<Str(id)>>, withCb)
  IN /\ Start(Pending("get", args, "get", Param(args, 1),
                      <<Invoke("get", Forwarded(args))>>))
     /\ UNCHANGED <<db, indexes, syncEmitter, replicationOpts>>

\* the backend answers the point lookup
GetResponse(k) ==
  /\ Awaits(k, "get")
  /\ Put(k, IF calls[k].req.s \in db
            THEN Fulfilled(calls[k], StoredDoc(calls[k].req.s))
            ELSE Rejected(calls[k], BackendErr(404)))
  /\ UNCHANGED <<db, indexes, syncEmitter, replicationOpts>>

\* -------------------------------------------------------------------- find
\* find(opts[, cb]): this.db.find(opts)
Find(id, withCb) ==
  LET args == Args(<<Obj([selector |-> Obj([_id |-> Str(id)])])>>, withCb)
  IN /\ Start(Pending("find", args, "find", Param(args, 1),
                      <<Invoke("find", <<Param(args, 1)>>)>>))
     /\ UNCHANGED <<db, indexes, syncEmitter, replicationOpts>>

\* returnDocsArray: rslt.docs
returnDocsArray(rslt) == Get(rslt, "docs")

\* the backend answers the query
FindResponse(k) ==
  /\ Awaits(k, "find")
  /\ LET id == Get(Get(calls[k].req, "selector"), "_id").s
     IN \/ Put(k, Fulfilled(calls[k], returnDocsArray(Obj([docs |->
                 Arr(IF id \in db THEN <<StoredDoc(id)>> ELSE <<>>)]))))
        \/ Put(k, Rejected(calls[k], BackendErr(500)))
  /\ UNCHANGED <<db, indexes, syncEmitter, replicationOpts>>

\* ------------------------------------------------------------------ delete
\* delete(doc[, opts][, cb]): this.db.remove(doc, opts)
Delete(id, withCb) ==
  LET args == Args(<<StoredDoc(id)>>, withCb)
  IN /\ Start(Pending("delete", args, "remove", Param(args, 1),
                      <<Invoke("remove", <<Param(args, 1), Param(args, 2)>>)>>))
     /\ UNCHANGED <<db, indexes, syncEmitter, replicationOpts>>

\* the backend's acknowledgment of a removal
RemoveAck(id) == Obj([ok |-> Bool(TRUE), id |-> Str(id), rev |-> Rev])

\* the backend answers the removal
RemoveResponse(k) ==
  /\ Awaits(k, "remove")
  /\ LET id == Get(calls[k].req, "_id").s
     IN \/ /\ id \in db
           /\ db' = db \ {id}
           /\ Put(k, Fulfilled(calls[k], RemoveAck(id)))
        \/ /\ db' = db
           /\ Put(k, Rejected(calls[k], BackendErr(IF id \in db THEN 409 ELSE 404)))
  /\ UNCHANGED <<indexes, syncEmitter, replicationOpts>>

\* --------------------------------------------------------------------- all
AllOpts ==
  {Undef,
   Obj([include_docs |-> Bool(FALSE)]),
   Obj([includeDesignDocs |-> Bool(TRUE)]),
   Obj([includeDesignDocs |-> Bool(FALSE)]),
   Obj([include_docs |-> Bool(FALSE), includeDesignDocs |-> Bool(TRUE)])}

\* opts = defaults(opts || {}, { include_docs: true })
allOpts(opts) ==
  defaults(IF Truthy(opts) THEN opts ELSE EmptyObj, Obj([include_docs |-> Bool(TRUE)]))

\* all([opts][, cb]) up to this.db.allDocs(opts)
All(opts, withCb) ==
  LET args == Args(IF opts = Undef THEN <<>> ELSE <<opts>>, withCb)
  IN /\ Start(Pending("all", args, "allDocs", allOpts(Param(args, 1)),
                      <<Invoke("allDocs", <<allOpts(Param(args, 1))>>)>>))
     /\ UNCHANGED <<db, indexes, syncEmitter, replicationOpts>>

\* the rows of the backend's allDocs answer, in the backend's order
RECURSIVE allDocsRows(_, _)
allDocsRows(i, opts) ==
  IF i > Len(IdOrder) THEN <<>>
  ELSE LET id == IdOrder[i]
           stub == Obj([id |-> Str(id), key |-> Str(id), value |-> Obj([rev |-> Rev])])
           row == IF Truthy(Get(opts, "include_docs"))
                  THEN Set(stub, "doc", StoredDoc(id)) ELSE stub
       IN (IF id \in db THEN <<row>> ELSE <<>>) \o allDocsRows(i + 1, opts)

\* simplifyAllDocSet: the document of row v, and whether it is pushed
rowDoc(opts, v) ==
  IF Truthy(Get(opts, "include_docs"))
  THEN Get(v, "doc")
  ELSE Del(Del(Del(Set(Set(v, "_id", Get(v, "id")),
                       "_rev", Get(Get(v, "value"), "rev")), "id"), "value"), "key")

rowPushed(opts, doc) ==
  IF ~Truthy(Get(opts, "includeDesignDocs")) THEN TRUE
  ELSE Truthy(Get(opts, "includeDesignDocs")) /\ designDocRegex(Get(doc, "_id").s)

\* handleReceivedDocs: docs.rows.reduce(simplifyAllDocSet, [])
RECURSIVE reduceRows(_, _, _, _)
reduceRows(rows, i, opts, r) ==
  IF i > Len(rows) THEN r
  ELSE LET doc == rowDoc(opts, rows[i])
       IN reduceRows(rows, i + 1, opts, IF rowPushed(opts, doc) THEN Append(r, doc) ELSE r)

handleReceivedDocs(docs, opts) == Arr(reduceRows(Get(docs, "rows").a, 1, opts, <<>>))

\* the backend answers the enumeration of all
AllDocsResponse(k) ==
  /\ Awaits(k, "allDocs") /\ calls[k].op = "all"
  /\ \/ Put(k, Fulfilled(calls[k],
               handleReceivedDocs(Obj([rows |-> Arr(allDocsRows(1, calls[k].req))]),
                                  calls[k].req)))
     \/ Put(k, Rejected(calls[k], BackendErr(500)))
  /\ UNCHANGED <<db, indexes, syncEmitter, replicationOpts>>

\* ----------------------------------------------------------------- bulkGet
BulkIds == {sA, sB}
BulkFilters ==
  {Obj([_id |-> Str(i), _rev |-> Rev]) : i \in BulkIds}
  \cup {Obj([id |-> Str(i), rev |-> Rev]) : i \in BulkIds}
BulkLists == UNION {[1..n -> BulkFilters] : n \in 0..MaxBatch}
BulkOpts ==
  {Undef, EmptyObj, Obj([docs |-> Str(sA)])}
  \cup {Arr(l) : l \in BulkLists}
  \cup {Obj([docs |-> Arr(l)]) : l \in BulkLists}

\* remapIdRev: _id/_rev of a filter become id/rev
remapIdRev(doc) ==
  LET d1 == IF Truthy(Get(doc, "_id")) THEN Set(doc, "id", Get(doc, "_id")) ELSE doc
      d2 == IF Truthy(Get(d1, "_rev")) THEN Set(d1, "rev", Get(d1, "_rev")) ELSE d1
  IN Del(Del(d2, "_rev"), "_id")

\* if (Array.isArray(opts)) opts = { docs: opts }; opts.docs = opts.docs.map(remapIdRev)
bulkGetOpts(opts) ==
  LET o == IF IsArray(opts) THEN Obj([docs |-> opts]) ELSE opts
  IN Set(o, "docs", Arr([i \in DOMAIN Get(o, "docs").a |-> remapIdRev(Get(o, "docs").a[i])]))

\* the messages of bulkGet's argument errors
missingOptsMsg == "missing bulkGet opts"
filtersMsg == "bulkGet requires array of doc filters. please see couchdb bulkGet"

\* bulkGet(opts[, cb]) up to its return: a throw, the promise of an empty
\* array, or this.db.bulkGet(opts)
BulkGet(opts, withCb) ==
  LET args == Args(<<opts>>, withCb)
      o == Param(args, 1)
  IN /\ IF ~Truthy(o)
        THEN Start(Thrown("bulkGet", args, ArgErr(missingOptsMsg)))
        ELSE IF ~IsArray(IF IsArray(o) THEN o ELSE Get(o, "docs"))
        THEN Start(Thrown("bulkGet", args, ArgErr(filtersMsg)))
        ELSE IF Len(Get(bulkGetOpts(o), "docs").a) = 0
        THEN Start(Pending("bulkGet", args, "resolve", bulkGetOpts(o), <<>>))
        ELSE Start(Pending("bulkGet", args, "bulkGet", bulkGetOpts(o),
                           <<Invoke("bulkGet", <<bulkGetOpts(o)>>)>>))
     /\ UNCHANGED <<db, indexes, syncEmitter, replicationOpts>>

\* Promise.resolve([]) reaches the wrapper's then: the call made with an empty
\* list settles, after it has returned
BulkGetResolved(k) ==
  /\ Awaits(k, "resolve")
  /\ Put(k, Fulfilled(calls[k], Arr(<<>>)))
  /\ UNCHANGED <<db, indexes, syncEmitter, replicationOpts>>

\* the backend's result group for one requested filter
bulkGetGroup(filter) ==
  LET id == Get(filter, "id")
  IN Obj([id |-> id,
          docs |-> Arr(<<IF id.s \in db
                         THEN Obj([ok |-> StoredDoc(id.s)])
                         ELSE Obj([error |-> Obj([status |-> Num(404)])])>>)])

\* get(docGroup, 'docs[0].ok')
firstOk(docGroup) ==
  LET docs == Get(docGroup, "docs")
  IN IF docs.t = "array" /\ Len(docs.a) > 0 THEN Get(docs.a[1], "ok") ELSE Undef

\* a variant that skips a group without a document instead of throwing
RECURSIVE tidyBulkGetDocsSkip(_, _, _)
tidyBulkGetDocsSkip(results, i, acc) ==
  IF i > Len(results) THEN [thrown |-> FALSE, value |-> Arr(acc)]
  ELSE tidyBulkGetDocsSkip(results, i + 1,
         IF Truthy(firstOk(results[i])) THEN Append(acc, firstOk(results[i])) ELSE acc)

\* r.results.map(tidyBulkGetDocs): the documents, or the throw of the first
\* group without one
RECURSIVE tidyBulkGetDocs(_, _, _)
tidyBulkGetDocs(results, i, acc) ==
  IF i > Len(results) THEN [thrown |-> FALSE, value |-> Arr(acc)]
  ELSE IF ~Truthy(firstOk(results[i]))
       THEN [thrown |-> TRUE, value |-> NotFoundErr(Get(results[i], "id"))]
       ELSE tidyBulkGetDocs(results, i + 1, Append(acc, firstOk(results[i])))

mapBulkGetResultsToRoot(r) == tidyBulkGetDocs(Get(r, "results").a, 1, <<>>)

\* the backend answers the batched fetch: one group per requested filter
BulkGetResponse(k) ==
  /\ Awaits(k, "bulkGet")
  /\ LET filters == Get(calls[k].req, "docs").a
         r == Obj([results |-> Arr([i \in DOMAIN filters |-> bulkGetGroup(filters[i])])])
         out == mapBulkGetResultsToRoot(r)
     IN \/ Put(k, IF out.thrown
                  THEN Rejected([calls[k] EXCEPT !.resp = r], out.value)
                  ELSE Fulfilled([calls[k] EXCEPT !.resp = r], out.value))
        \/ Put(k, Rejected([calls[k] EXCEPT !.resp = BackendErr(500)], BackendErr(500)))
  /\ UNCHANGED <<db, indexes, syncEmitter, replicationOpts>>

\* --------------------------------------------------- createIndicies, createIndex
fX == Str(<<"x">>)
fY == Str(<<"y">>)
IndexArgs == {fX, Arr(<<fX>>), Arr(<<fX, fX>>), Arr(<<fX, fY>>), Arr(<<fX, fY, fX>>)}

\* lodash uniq: the first occurrence of every element, in order
RECURSIVE unique(_)
unique(q) ==
  IF Len(q) = 0 THEN <<>>
  ELSE LET front == unique(SubSeq(q, 1, Len(q) - 1))
           last == q[Len(q)]
       IN IF \E i \in DOMAIN front : front[i] = last THEN front ELSE Append(front, last)

\* { index: { fields: unique(Array.isArray(indicies) ? indicies : [indicies]) } }
createIndexOpts(indicies) ==
  Obj([index |-> Obj([fields |-> Arr(unique(IF IsArray(indicies) THEN indicies.a
                                            ELSE <<indicies>>))])])

\* createIndicies(indicies[, cb]) and its alias createIndex, up to this.db.createIndex
CreateIndicies(op, indicies, withCb) ==
  LET args == Args(<<indicies>>, withCb)
  IN /\ Start(Pending(op, args, "createIndex", createIndexOpts(Param(args, 1)),
                      <<Invoke("createIndex", <<createIndexOpts(Param(args, 1))>>)>>))
     /\ UNCHANGED <<db, indexes, syncEmitter, replicationOpts>>

\* a variant that rethrows every error
handleFailAlways(err) == [thrown |-> TRUE, value |-> err]

\* handleFailCreateIndicies: if (err.status !== 409) throw err
handleFailCreateIndicies(err) ==
  IF err.status # 409 THEN [thrown |-> TRUE, value |-> err]
  ELSE [thrown |-> FALSE, value |-> Undef]

\* the backend answers the index creation
CreateIndexResponse(k) ==
  /\ Awaits(k, "createIndex")
  /\ LET fields == Get(Get(calls[k].req, "index"), "fields").a
     IN \/ LET r == Obj([result |-> Str(IF fields \in indexes
                                        THEN <<"e", "x", "i", "s", "t", "s">>
                                        ELSE <<"c", "r", "e", "a", "t", "e", "d">>)])
           IN /\ indexes' = indexes \cup {fields}
              /\ Put(k, Fulfilled([calls[k] EXCEPT !.resp = r], r))
        \/ \E status \in (IF fields \in indexes THEN {409} ELSE {}) \cup {500} :
             LET out == handleFailCreateIndicies(BackendErr(status))
                 c == [calls[k] EXCEPT !.resp = BackendErr(status)]
             IN /\ indexes' = indexes
                /\ Put(k, IF out.thrown THEN Rejected(c, out.value)
                          ELSE Fulfilled(c, out.value))
  /\ UNCHANGED <<db, syncEmitter, replicationOpts>>

\* --------------------------------------------------------- deleteAll, clear
\* deleteAll([cb]) and its alias clear, up to this.all()'s this.db.allDocs
DeleteAll(op, withCb) ==
  LET args == Args(<<>>, withCb)
  IN /\ Start(Pending(op, args, "allDocs", allOpts(Undef),
                      <<Invoke("allDocs", <<allOpts(Undef)>>)>>))
     /\ UNCHANGED <<db, indexes, syncEmitter, replicationOpts>>

\* a variant that fulfils with the first delete fulfilled (Promise.any)
PromiseAny(ds) ==
  IF \E id \in DOMAIN ds : ds[id] = "ok" THEN "fulfilled"
  ELSE IF \E id \in DOMAIN ds : ds[id] = "failed" THEN "rejected"
  ELSE "pending"

\* Promise.all over the deletes: rejected with the first failure seen,
\* fulfilled once every one is fulfilled
PromiseAll(ds) ==
  IF \E id \in DOMAIN ds : ds[id] = "failed" THEN "rejected"
  ELSE IF \A id \in DOMAIN ds : ds[id] = "ok" THEN "fulfilled"
  ELSE "pending"

\* the acknowledgments Promise.all fulfils with, in the order of docs
removeAcks(docs) == Arr([i \in DOMAIN docs |-> RemoveAck(Get(docs[i], "_id").s)])

\* deleteEach: one this.delete(doc) per listed document, all issued at once
deleteEach(docs) == [i \in DOMAIN docs |-> Invoke("remove", <<docs[i], Undef>>)]

\* the backend answers deleteAll's enumeration: this.all() has its documents,
\* and deleteEach is still to run
DeleteAllListed(k) ==
  /\ Awaits(k, "allDocs") /\ calls[k].op \in {"deleteAll", "clear"}
  /\ \/ LET docs == toUnderscorePrefix(handleReceivedDocs(
                      Obj([rows |-> Arr(allDocsRows(1, calls[k].req))]), calls[k].req)).a
        IN Put(k, [calls[k] EXCEPT !.await = "deleteEach", !.req = Arr(docs)])
     \/ Put(k, Rejected(calls[k], BackendErr(500)))
  /\ UNCHANGED <<db, indexes, syncEmitter, replicationOpts>>

\* the then-reaction of this.all() runs, in a later turn: deleteEach issues
\* one delete per document all() listed, whatever the store holds by then,
\* and returns Promise.all of them
DeleteEach(k) ==
  /\ Awaits(k, "deleteEach")
  /\ LET docs == calls[k].req.a
     IN Put(k, [calls[k] EXCEPT
                  !.await = "deletes",
                  !.log = @ \o deleteEach(docs),
                  !.deletes = [id \in {Get(docs[i], "_id").s : i \in DOMAIN docs}
                                 |-> "pending"]])
  /\ UNCHANGED <<db, indexes, syncEmitter, replicationOpts>>

\* the statuses with which the backend refuses a removal
RemoveStatuses == {404, 409, 500}

\* the backend answers one removal of deleteAll, with an acknowledgment
\* (err = Null) or an error: the removal's own promise settles, and
\* Promise.all keeps the error of the first removal refused
DeleteAnswered(k, id, err) ==
  /\ id \in DOMAIN calls[k].deletes /\ calls[k].deletes[id] = "pending"
  /\ err = Null => id \in db
  /\ db' = IF err = Null THEN db \ {id} ELSE db
  /\ Put(k, [calls[k] EXCEPT
                !.deletes[id] = IF err = Null THEN "ok" ELSE "failed",
                !.failure = IF err # Null /\ PromiseAll(calls[k].deletes) # "rejected"
                            THEN err ELSE @])
  /\ UNCHANGED <<indexes, syncEmitter, replicationOpts>>

\* Promise.all has settled and its reaction runs: deleteAll's future fulfils
\* with the acknowledgments, or rejects with the error of the first removal
\* refused
DeleteAllSettles(k) ==
  /\ Awaits(k, "deletes")
  /\ PromiseAll(calls[k].deletes) # "pending"
  /\ Put(k, IF PromiseAll(calls[k].deletes) = "rejected"
            THEN Rejected(calls[k], calls[k].failure)
            ELSE Fulfilled(calls[k], removeAcks(calls[k].req.a)))
  /\ UNCHANGED <<db, indexes, syncEmitter, replicationOpts>>

\* --------------------------------------------------------- destroy, deleteDB
\* a replication emitter: its `complete` listeners, cancel() calls, `complete` events
Emitter == [t |-> "object", listeners |-> 0, cancelled |-> 0, completed |-> 0]

\* what destroy passes to chain.then: a Promise instance
PromiseObj == [t |-> "object"]

\* this._replicationOpts && this._replicationOpts.live
isLive == Truthy(replicationOpts) /\ Truthy(Get(replicationOpts, "live"))

\* a variant that binds the `complete` listener after cancel()
destroyStepsLateBind(hasEmitter, live) ==
  IF hasEmitter
  THEN <<"cancel">> \o (IF live THEN <<"on">> ELSE <<>>)
  ELSE <<>>

\* a variant that cancels live sessions only
destroyStepsLiveOnly(hasEmitter, live) ==
  IF hasEmitter /\ live THEN <<"on", "cancel">> ELSE <<>>

\* destroy's synchronous steps on the emitter, in program order
destroySteps(hasEmitter, live) ==
  IF hasEmitter
  THEN (IF live THEN <<"on">> ELSE <<>>) \o <<"cancel">>
  ELSE <<>>

\* one step on the emitter: st is [em, p, log, fired]; sync tells whether
\* cancel() emits `complete` before it returns
emitterStep(st, step, sync) ==
  IF step = "on"
  THEN [st EXCEPT !.em.listeners = @ + 1,
                  !.p = "pending",
                  !.log = Append(@, Invoke("on", <<"complete">>))]
  ELSE [st EXCEPT !.em.cancelled = @ + 1,
                  !.em.completed = IF sync THEN @ + 1 ELSE @,
                  !.p = IF sync /\ st.p = "pending" THEN "resolved" ELSE @,
                  !.fired = sync,
                  !.log = Append(@, Invoke("cancel", <<>>))
                          \o (IF sync THEN <<Invoke("emit", <<"complete">>)>> ELSE <<>>)]

RECURSIVE emitterSteps(_, _, _, _)
emitterSteps(st, steps, i, sync) ==
  IF i > Len(steps) THEN st
  ELSE emitterSteps(emitterStep(st, steps[i], sync), steps, i + 1, sync)

\* a `complete` event reaches the listener of call c: resolve(...)
waitForLiveSyncComplete(c) == IF c.p = "pending" THEN [c EXCEPT !.p = "resolved"] ELSE c

\* bluebird's then(didFulfill): didFulfill is kept as the handler only when it
\* is a function; otherwise the promise passes its value through
thenKeeps(didFulfill) == IsFunction(didFulfill)

\* destroy([cb]): the synchronous part, up to the chain being built
Destroy(withCb, sync) ==
  LET args == Args(<<>>, withCb)
      st == emitterSteps([em |-> syncEmitter, p |-> "none", log |-> <<>>, fired |-> FALSE],
                         destroySteps(Truthy(syncEmitter), isLive), 1, sync)
  IN /\ Len(calls) < MaxCalls
     /\ Truthy(syncEmitter) => syncEmitter.cancelled < MaxCancels
     /\ syncEmitter' = st.em
     /\ calls' = Append(IF st.fired
                        THEN [i \in DOMAIN calls |-> waitForLiveSyncComplete(calls[i])]
                        ELSE calls,
                        [Pending("destroy", args, "chain", Undef, st.log) EXCEPT !.p = st.p])
     /\ UNCHANGED <<db, indexes, replicationOpts>>

\* the emitter fires `complete` after a cancel() has returned
SessionComplete ==
  /\ Truthy(syncEmitter)
  /\ syncEmitter.completed < syncEmitter.cancelled
  /\ syncEmitter' = [syncEmitter EXCEPT !.completed = @ + 1]
  /\ calls' = [i \in DOMAIN calls |-> waitForLiveSyncComplete(calls[i])]
  /\ UNCHANGED <<db, indexes, replicationOpts>>

\* bbPouchyDestroy: the chain reaches this.db.destroy
BbPouchyDestroy(k) ==
  /\ Awaits(k, "chain")
  /\ (calls[k].p # "none" /\ thenKeeps(PromiseObj)) => calls[k].p = "resolved"
  /\ Put(k, [calls[k] EXCEPT !.await = "destroy",
                             !.log = Append(@, Invoke("destroy", <<Undef>>))])
  /\ UNCHANGED <<db, indexes, syncEmitter, replicationOpts>>

\* deleteDB([cb]): this.db.destroy()
DeleteDB(withCb) ==
  LET args == Args(<<>>, withCb)
  IN /\ Start(Pending("deleteDB", args, "destroy", Undef, <<Invoke("destroy", <<>>)>>))
     /\ UNCHANGED <<db, indexes, syncEmitter, replicationOpts>>

\* the backend answers the destruction
DestroyResponse(k) ==
  /\ Awaits(k, "destroy")
  /\ \/ /\ db' = {}
        /\ indexes' = {}
        /\ Put(k, Fulfilled(calls[k], Obj([ok |-> Bool(TRUE)])))
     \/ /\ UNCHANGED <<db, indexes>>
        /\ Put(k, Rejected(calls[k], BackendErr(500)))
  /\ UNCHANGED <<syncEmitter, replicationOpts>>

\* ------------------------------------------------------------ state machine
\* the store after construction: empty, no call made, with no replication,
\* a one-shot replication or a live one
Init ==
  /\ db = {}
  /\ indexes = {}
  /\ \/ syncEmitter = Undef /\ replicationOpts = Undef
     \/ syncEmitter = Emitter /\ replicationOpts = Obj([live |-> Bool(FALSE)])
     \/ syncEmitter = Emitter /\ replicationOpts = Obj([live |-> Bool(TRUE)])
  /\ calls = <<>>

\* every public method, with every input, in any overlap
Next ==
  \/ \E op \in {"save", "add"}, doc \in SaveDocs, withCb \in BOOLEAN : Save(op, doc, withCb)
  \/ \E k \in DOMAIN calls : WriteResponse(k)
  \/ \E doc \in UpdateDocs, withCb \in BOOLEAN : Update(doc, withCb)
  \/ \E id \in {sA, sDesign}, withCb \in BOOLEAN : GetDoc(id, withCb)
  \/ \E k \in DOMAIN calls : GetResponse(k)
  \/ \E id \in {sA, sB}, withCb \in BOOLEAN : Find(id, withCb)
  \/ \E k \in DOMAIN calls : FindResponse(k)
  \/ \E id \in {sA, sDesign}, withCb \in BOOLEAN : Delete(id, withCb)
  \/ \E k \in DOMAIN calls : RemoveResponse(k)
  \/ \E opts \in AllOpts, withCb \in BOOLEAN : All(opts, withCb)
  \/ \E k \in DOMAIN calls : AllDocsResponse(k)
  \/ \E opts \in BulkOpts, withCb \in BOOLEAN : BulkGet(opts, withCb)
  \/ \E k \in DOMAIN calls : BulkGetResolved(k)
  \/ \E k \in DOMAIN calls : BulkGetResponse(k)
  \/ \E op \in {"createIndicies", "createIndex"}, i \in IndexArgs, withCb \in BOOLEAN :
        CreateIndicies(op, i, withCb)
  \/ \E k \in DOMAIN calls : CreateIndexResponse(k)
  \/ \E op \in {"deleteAll", "clear"}, withCb \in BOOLEAN : DeleteAll(op, withCb)
  \/ \E k \in DOMAIN calls : DeleteAllListed(k)
  \/ \E k \in DOMAIN calls : DeleteEach(k)
  \/ \E k \in DOMAIN calls, id \in AllIds,
        err \in {Null} \cup {BackendErr(st) : st \in RemoveStatuses} :
        DeleteAnswered(k, id, err)
  \/ \E k \in DOMAIN calls : DeleteAllSettles(k)
  \/ \E withCb \in BOOLEAN, sync \in BOOLEAN : Destroy(withCb, sync)
  \/ SessionComplete
  \/ \E k \in DOMAIN calls : BbPouchyDestroy(k)
  \/ \E withCb \in BOOLEAN : DeleteDB(withCb)
  \/ \E k \in DOMAIN calls : DestroyResponse(k)
  \/ \E k \in DOMAIN calls : AsCallback(k)
  \/ \E k \in DOMAIN calls : Return(k)

Spec == Init /\ [][Next]_vars

\* The behaviours of Spec are explored one family of methods at a time; each
\* family's steps are steps of Next, and its calls overlap as in Spec.

\* documents a caller stores under a chosen identifier
SeedDocs == {Obj([_id |-> Str(i), x |-> Num(1)]) : i \in AllIds}

\* callers that use save, add, update, get, find and delete
NextCrud ==
  \/ \E op \in {"save", "add"}, doc \in SaveDocs, withCb \in BOOLEAN : Save(op, doc, withCb)
  \/ \E k \in DOMAIN calls : WriteResponse(k)
  \/ \E doc \in UpdateDocs : Update(doc, TRUE)
  \/ \E id \in {sA, sDesign} : GetDoc(id, TRUE)
  \/ \E k \in DOMAIN calls : GetResponse(k)
  \/ \E id \in {sA, sB} : Find(id, TRUE)
  \/ \E k \in DOMAIN calls : FindResponse(k)
  \/ \E id \in {sA, sDesign} : Delete(id, TRUE)
  \/ \E k \in DOMAIN calls : RemoveResponse(k)
  \/ \E k \in DOMAIN calls : AsCallback(k)
  \/ \E k \in DOMAIN calls : Return(k)

SpecCrud == Init /\ [][NextCrud]_vars

\* callers that use save and all
NextAll ==
  \/ \E doc \in SeedDocs : Save("save", doc, FALSE)
  \/ \E k \in DOMAIN calls : WriteResponse(k)
  \/ \E opts \in AllOpts, withCb \in BOOLEAN : All(opts, withCb)
  \/ \E k \in DOMAIN calls : AllDocsResponse(k)
  \/ \E k \in DOMAIN calls : AsCallback(k)
  \/ \E k \in DOMAIN calls : Return(k)

SpecAll == Init /\ [][NextAll]_vars

\* callers that use save, delete and bulkGet
NextBulkGet ==
  \/ \E id \in BulkIds : Save("save", Obj([_id |-> Str(id), x |-> Num(1)]), FALSE)
  \/ \E k \in DOMAIN calls : WriteResponse(k)
  \/ \E id \in BulkIds : Delete(id, FALSE)
  \/ \E k \in DOMAIN calls : RemoveResponse(k)
  \/ \E opts \in BulkOpts, withCb \in BOOLEAN : BulkGet(opts, withCb)
  \/ \E k \in DOMAIN calls : BulkGetResolved(k)
  \/ \E k \in DOMAIN calls : BulkGetResponse(k)
  \/ \E k \in DOMAIN calls : AsCallback(k)
  \/ \E k \in DOMAIN calls : Return(k)

SpecBulkGet == Init /\ [][NextBulkGet]_vars

\* callers that use createIndicies, createIndex and deleteDB
NextIndex ==
  \/ \E op \in {"createIndicies", "createIndex"}, i \in IndexArgs, withCb \in BOOLEAN :
        CreateIndicies(op, i, withCb)
  \/ \E k \in DOMAIN calls : CreateIndexResponse(k)
  \/ \E withCb \in BOOLEAN : DeleteDB(withCb)
  \/ \E k \in DOMAIN calls : DestroyResponse(k)
  \/ \E k \in DOMAIN calls : AsCallback(k)
  \/ \E k \in DOMAIN calls : Return(k)

SpecIndex == Init /\ [][NextIndex]_vars

\* callers that use save, deleteAll and clear
NextSweep ==
  \/ \E id \in {sA, sDesign} : Save("save", Obj([_id |-> Str(id), x |-> Num(1)]), FALSE)
  \/ \E k \in DOMAIN calls : WriteResponse(k)
  \/ \E op \in {"deleteAll", "clear"}, withCb \in BOOLEAN : DeleteAll(op, withCb)
  \/ \E k \in DOMAIN calls : DeleteAllListed(k)
  \/ \E k \in DOMAIN calls : DeleteEach(k)
  \/ \E k \in DOMAIN calls, id \in AllIds,
        err \in {Null} \cup {BackendErr(st) : st \in RemoveStatuses} :
        DeleteAnswered(k, id, err)
  \/ \E k \in DOMAIN calls : DeleteAllSettles(k)
  \/ \E k \in DOMAIN calls : AsCallback(k)
  \/ \E k \in DOMAIN calls : Return(k)

SpecSweep == Init /\ [][NextSweep]_vars

\* callers that use destroy and deleteDB, and all on what is left
NextLifecycle ==
  \/ \E withCb \in BOOLEAN, sync \in BOOLEAN : Destroy(withCb, sync)
  \/ SessionComplete
  \/ \E k \in DOMAIN calls : BbPouchyDestroy(k)
  \/ \E withCb \in BOOLEAN : DeleteDB(withCb)
  \/ \E k \in DOMAIN calls : DestroyResponse(k)
  \/ All(Undef, TRUE)
  \/ \E k \in DOMAIN calls : AllDocsResponse(k)
  \/ \E k \in DOMAIN calls : AsCallback(k)
  \/ \E k \in DOMAIN calls : Return(k)

SpecLifecycle == Init /\ [][NextLifecycle]_vars

\* ------------------------------------------------------------------ claims
\* positions of the invocations of fn in the log of call c
At(c, fn) == {i \in DOMAIN c.log : c.log[i].fn = fn}
IsDestroyCall(c) == c.op = "destroy"
IsSaveCall(c) == c.op \in {"save", "add"}
IsSweepCall(c) == c.op \in {"deleteAll", "clear"}
IsIndexCall(c) == c.op \in {"createIndicies", "createIndex"}
Settled(c) == c.status \in {"resolved", "rejected"}
\* the store has a live replication session
HasLiveSession == Truthy(syncEmitter) /\ isLive

\* C1: destroy() on a store with a live replication session does not invoke
\* the backend's destroy before the session's `complete` event has reached
\* the listener the call registered.
C1_DestroyWaitsForComplete ==
  \A k \in DOMAIN calls :
    (IsDestroyCall(calls[k]) /\ HasLiveSession /\ At(calls[k], "destroy") # {})
      => calls[k].p = "resolved"

\* C2: destroy() on a store with a live session registers the `complete`
\* listener before it calls cancel(), so a `complete` emitted at any time from
\* cancel() on, also from inside cancel(), resolves the listener's promise.
C2_ListenerBeforeCancel ==
  \A k \in DOMAIN calls :
    (IsDestroyCall(calls[k]) /\ HasLiveSession) =>
      /\ At(calls[k], "on") # {}
      /\ \A i \in At(calls[k], "on"), j \in At(calls[k], "cancel") : i < j
      /\ \A i \in At(calls[k], "on"), j \in At(calls[k], "emit") : i < j
      /\ At(calls[k], "emit") # {} => calls[k].p = "resolved"
      /\ syncEmitter.completed = syncEmitter.cancelled => calls[k].p = "resolved"

\* the `complete` event came from inside cancel() and the listener saw it
C2_Witness ==
  \E k \in DOMAIN calls :
    /\ IsDestroyCall(calls[k]) /\ HasLiveSession /\ calls[k].await = "chain"
    /\ At(calls[k], "on") = {1} /\ At(calls[k], "cancel") = {2}
    /\ At(calls[k], "emit") = {3}
    /\ calls[k].p = "resolved"

\* C3 as stated: save writes with put exactly when the document carries an
\* identifier field, whatever its value (0 and "" included), and with post
\* only when it carries none.
C3_PresetIdAlwaysPut ==
  \A k \in DOMAIN calls :
    IsSaveCall(calls[k]) => (calls[k].log[1].fn = "put" <=> HasOwn(calls[k].req, "_id"))

\* C3 amended: save writes with put exactly when the document carries an
\* identifier field whose value is truthy or the number 0; with no identifier
\* field, or a falsy one other than 0 ("", null, undefined), it writes with post.
C3_PutIffTruthyOrZeroId ==
  \A k \in DOMAIN calls :
    IsSaveCall(calls[k]) =>
      LET d == calls[k].req
          write == calls[k].log[1]
          put == /\ "_id" \in DOMAIN d.o
                 /\ \/ d.o["_id"].t = "number"
                    \/ d.o["_id"].t = "string" /\ d.o["_id"].s # <<>>
      IN /\ Len(calls[k].log) = 1
         /\ write.fn \in {"put", "post"}
         /\ write.fn = "put" <=> put
         /\ write.args = <<d>>

\* a document whose identifier is the number 0 is written with put while
\* another save is in flight
C3_Witness ==
  \E k \in DOMAIN calls :
    /\ IsSaveCall(calls[k]) /\ HasOwn(calls[k].req, "_id")
    /\ calls[k].req.o["_id"] = Num(0)
    /\ calls[k].log[1].fn = "put"
    /\ k = 2 /\ calls[1].status = "pending"

\* C4: all() without includeDesignDocs resolves to no design document, and
\* with includeDesignDocs true to design documents only.
C4_AllFiltersDesignDocs ==
  \A k \in DOMAIN calls :
    (calls[k].op = "all" /\ calls[k].status = "resolved") =>
      \A i \in DOMAIN calls[k].value.a :
        LET id == calls[k].value.a[i].o["_id"].s
            design == Len(id) >= 8
                      /\ SubSeq(id, 1, 8) = <<"_", "d", "e", "s", "i", "g", "n", "/">>
        IN design <=> (HasOwn(calls[k].req, "includeDesignDocs")
                         /\ calls[k].req.o["includeDesignDocs"] = Bool(TRUE))

\* C5: no public call ends with an exception thrown out of the call: every
\* failure, that of bulkGet on absent or non-array input included, is the
\* rejection of the returned future.
C5_NeverThrowsSynchronously ==
  \A k \in DOMAIN calls : calls[k].status # "thrown"

\* C6 as stated: the future of deleteAll()/clear() settles only after every
\* delete it initiated has settled, also when one of them fails.
C6_SettlesAfterEveryDelete ==
  \A k \in DOMAIN calls :
    (IsSweepCall(calls[k]) /\ Settled(calls[k]))
      => \A id \in DOMAIN calls[k].deletes : calls[k].deletes[id] # "pending"

\* C6 amended: deleteAll()/clear() initiates one delete for every listed
\* document before any of them settles; its future fulfils only after every
\* delete has fulfilled, and rejects once a delete has failed, with the
\* error of the first delete that failed, whether or not the remaining
\* deletes have settled.
C6_FulfilsAfterEveryDelete ==
  \A k \in DOMAIN calls :
    IsSweepCall(calls[k]) =>
      LET c == calls[k]
          listed == c.await = "deletes" \/ c.status = "resolved" \/ c.deletes # <<>>
      IN /\ c.status = "resolved" => \A id \in DOMAIN c.deletes : c.deletes[id] = "ok"
         /\ (\E id \in DOMAIN c.deletes : c.deletes[id] = "failed") => c.status # "resolved"
         /\ (c.status = "rejected" /\ listed)
              => /\ \E id \in DOMAIN c.deletes : c.deletes[id] = "failed"
                 /\ c.value = c.failure
         /\ (\E id \in DOMAIN c.deletes : c.deletes[id] = "failed")
              <=> (c.failure.t = "error" /\ c.failure.name = "PouchError"
                     /\ c.failure.status \in RemoveStatuses)
         /\ listed =>
              /\ DOMAIN c.deletes = {Get(c.req.a[i], "_id").s : i \in DOMAIN c.req.a}
              /\ Cardinality(At(c, "remove")) = Cardinality(DOMAIN c.deletes)
              /\ \A i \in At(c, "remove") : Get(c.log[i].args[1], "_id").s \in DOMAIN c.deletes
         /\ ~listed => At(c, "remove") = {}

\* one delete failed with status 500 and the call is rejected with that error
\* while another delete is still pending
C6_Witness ==
  \E k \in DOMAIN calls :
    /\ IsSweepCall(calls[k]) /\ calls[k].status = "rejected"
    /\ calls[k].value = BackendErr(500)
    /\ \E id \in DOMAIN calls[k].deletes : calls[k].deletes[id] = "failed"
    /\ \E id \in DOMAIN calls[k].deletes : calls[k].deletes[id] = "pending"

\* C7: bulkGet is all-or-nothing: when a requested identifier has no
\* successful result the call rejects with the not-found error naming such an
\* identifier and delivers no array; when every one has, it resolves to the
\* N requested documents in request order.
C7_BulkGetAllOrNothing ==
  \A k \in DOMAIN calls :
    (calls[k].op = "bulkGet" /\ Settled(calls[k]) /\ calls[k].resp.t = "object") =>
      LET c == calls[k]
          filters == c.req.o["docs"].a
          groups == c.resp.o["results"].a
          found(g) == "ok" \in DOMAIN g.o["docs"].a[1].o
          missing == {groups[i].o["id"] : i \in {j \in DOMAIN groups : ~found(groups[j])}}
      IN /\ Len(groups) = Len(filters)
         /\ \A i \in DOMAIN groups : groups[i].o["id"] = filters[i].o["id"]
         /\ missing # {} =>
              /\ c.status = "rejected"
              /\ \E id \in missing : c.value = NotFoundErr(id)
         /\ missing = {} =>
              /\ c.status = "resolved"
              /\ c.value.t = "array"
              /\ Len(c.value.a) = Len(filters)
              /\ \A i \in DOMAIN filters :
                   c.value.a[i] = Obj([_id |-> filters[i].o["id"], _rev |-> Rev])
         /\ c.cbCalls # <<>> => (c.cbCalls[1].err = Null <=> c.status = "resolved")

\* two identifiers were requested, the first has a document, the second has
\* none, and the call is rejected with the error naming the second
C7_Witness ==
  \E k \in DOMAIN calls :
    /\ calls[k].op = "bulkGet" /\ calls[k].status = "rejected"
    /\ calls[k].resp.t = "object"
    /\ Len(calls[k].resp.o["results"].a) = 2
    /\ "ok" \in DOMAIN calls[k].resp.o["results"].a[1].o["docs"].a[1].o
    /\ calls[k].value = NotFoundErr(calls[k].req.o["docs"].a[2].o["id"])

\* C8: createIndicies/createIndex over a field set succeeds whenever the
\* backend creates the index or reports it as existing (status 409 included),
\* so a second call with the same field set succeeds; it fails only with a
\* backend error of another status, which it hands on unchanged.
C8_IndexCreationIdempotent ==
  \A k \in DOMAIN calls :
    (IsIndexCall(calls[k]) /\ calls[k].status # "pending") =>
      LET c == calls[k]
          fields == c.log[1].args[1].o["index"].o["fields"].a
      IN /\ Settled(c)
         /\ \A i, j \in DOMAIN fields : fields[i] = fields[j] => i = j
         /\ (c.resp.t = "object" \/ (c.resp.t = "error" /\ c.resp.status = 409))
              => c.status = "resolved"
         /\ (c.resp.t = "error" /\ c.resp.status # 409)
              => c.status = "rejected" /\ c.value = c.resp

\* the index existed, the backend answered 409 and the call succeeded
C8_Witness ==
  \E k \in DOMAIN calls :
    /\ IsIndexCall(calls[k]) /\ calls[k].status = "resolved"
    /\ calls[k].resp = BackendErr(409)
    /\ calls[k].log[1].args[1].o["index"].o["fields"].a \in indexes

\* C9: a call with a trailing callable returns a future and invokes the
\* callable exactly once after the operation settles, with (error) or
\* (no error, result), and never before.
C9_CallbackExactlyOnce ==
  \A k \in DOMAIN calls :
    calls[k].cb =>
      /\ calls[k].status \in {"pending", "resolved", "rejected"}
      /\ calls[k].status = "pending" => calls[k].cbCalls = <<>>
      /\ calls[k].status = "resolved"
           => calls[k].cbCalls \in {<<>>, <<[err |-> Null, res |-> calls[k].value]>>}
      /\ calls[k].status = "rejected"
           => calls[k].cbCalls \in {<<>>, <<[err |-> calls[k].value]>>}
      /\ (calls[k].status \in {"resolved", "rejected"} /\ calls[k].cbCalls = <<>>)
           => ENABLED AsCallback(k)

\* C10: destroy() calls cancel() exactly once when a session exists, live or
\* not, and never without one; every destroy() invokes the backend's destroy
\* at most once, after cancel(); deleteDB() never calls cancel() and invokes
\* the backend's destroy directly.
C10_CancelAndDestroyOnce ==
  /\ \A k \in DOMAIN calls :
       /\ IsDestroyCall(calls[k]) =>
            /\ Cardinality(At(calls[k], "cancel")) = (IF Truthy(syncEmitter) THEN 1 ELSE 0)
            /\ Cardinality(At(calls[k], "destroy")) <= 1
            /\ \A i \in At(calls[k], "cancel"), j \in At(calls[k], "destroy") : i < j
            /\ (Truthy(syncEmitter) /\ ~isLive) => At(calls[k], "on") = {}
       /\ calls[k].op = "deleteDB" => calls[k].log = <<Invoke("destroy", <<>>)>>
  /\ Truthy(syncEmitter) =>
       syncEmitter.cancelled >=
         Cardinality({k \in DOMAIN calls : IsDestroyCall(calls[k])})

\* a one-shot session was cancelled by each of two overlapping destroy calls
\* and the backend destroyed while no `complete` event has been emitted
C10_Witness ==
  /\ Truthy(syncEmitter) /\ ~isLive
  /\ syncEmitter.cancelled = 2 /\ syncEmitter.completed = 0
  /\ Len(calls) = 2
  /\ \A k \in DOMAIN calls :
       /\ IsDestroyCall(calls[k])
       /\ At(calls[k], "cancel") = {1} /\ At(calls[k], "destroy") = {2}
====
